---- MODULE Spec2Model ----
(***************************************************************************)
(* GePost.py: a bot that, on a jittered schedule gated by quiet hours,     *)
(* samples one illustration from the paginated Pixiv bookmark collection   *)
(* (get_random_pixiv_art_safe) and sends it to a Telegram channel          *)
(* (send_to_telegram).  The module models run_bot's loop, the sampling     *)
(* session and the delivery step as one state machine.                     *)
(***************************************************************************)
EXTENDS Integers, Sequences, FiniteSets, TLC

(***************************************************************************)
(* Bounds of the model.                                                    *)
(***************************************************************************)
\* The page cap of the model.  GePost.py:32 sets MAX_PAGES_TO_FETCH = 40; the
\* sampler depends on the cap only through the loop test of line 188, so the
\* model runs it with a small cap.
MaxPagesModelled == 3

\* Largest number of illustrations the modelled upstream puts on one page.
MaxPageLen == 2

\* Largest interval_minutes and interval_deviation_minutes of the schedules
\* the interval computation is run with.
MaxBaseMinutes == 2

MaxDeviationMinutes == 1

(***************************************************************************)
(* Program constants.                                                      *)
(***************************************************************************)
MAX_PAGES_TO_FETCH == MaxPagesModelled

\* The floor of calculate_next_interval (line 94), in seconds.
MIN_INTERVAL_SECONDS == 60

\* The pause before every request after the first (line 31), in seconds.
PIXIV_REQUEST_DELAY == 1

\* The value json_result.get('next_url') has on the last page.
NoCursor == 0

\* Python's None as a returned img_url / caption / post_time.
None == "None"

(***************************************************************************)
(* The upstream bookmark collection (the pixivpy3 client is external): a   *)
(* chain of pages, page k holding the illustrations 10*k+1 .. 10*k+n.  A   *)
(* collection is a sequence of page lengths; an endless collection's last  *)
(* page links back to its first, so its cursor chain never ends.           *)
(***************************************************************************)
MaxCollectionPages == MAX_PAGES_TO_FETCH + 1

Max(a, b) == IF a >= b THEN a ELSE b
Min(a, b) == IF a <= b THEN a ELSE b

RECURSIVE SeqsUpTo(_, _)
SeqsUpTo(S, n) ==
    IF n = 0 THEN {<<>>}
    ELSE LET shorter == SeqsUpTo(S, n - 1)
         IN  shorter \cup {Append(s, x) : s \in {t \in shorter : Len(t) = n - 1}, x \in S}

Collections == SeqsUpTo(1..MaxPageLen, MaxCollectionPages)

PageItems(coll, k) == [j \in 1..coll[k] |-> 10 * k + j]

VARIABLES
    config,           \* the loaded configuration (read-only after load)
    collection,       \* the upstream collection: page lengths
    endless,          \* TRUE: the last page's next_url leads to page 1 again
    clock,            \* the hours datetime.now(MOSCOW_TZ) can show
    sigint,           \* the interrupt signal, and where it found the bot
    pc,               \* where run_bot's control flow stands
    next_interval,    \* run_bot's next_interval
    total_seconds,    \* countdown_timer's remaining seconds
    slept,            \* the one-second sleeps of this countdown_timer call
    current_hour,     \* the hour is_quiet_hours read last (-1: not read)
    all_illusts,      \* the session's accumulated illustrations
    pages_collected,  \* the session's page counter
    next_url,         \* the session's cursor
    events,           \* the session's fetches and delays, in order
    random_illust,    \* the illustration random.choice returned (0: none)
    payload_error,    \* lines 219-241 raised on the chosen illustration
    img_url,          \* the img_url get_random_pixiv_art_safe returned
    caption,          \* the caption get_random_pixiv_art_safe returned
    post_time,        \* what send_to_telegram returned (None before)
    outcome,          \* the cycle's logged outcome
    samples,          \* calls of get_random_pixiv_art_safe in this cycle
    sends,            \* calls of send_to_telegram in this cycle
    send_result,      \* what bot.send_photo did in this cycle ("none" before)
    first_wait_done   \* the first countdown_timer has returned

vars == <<config, collection, endless, clock, sigint, pc, next_interval,
          total_seconds, slept, current_hour, all_illusts, pages_collected,
          next_url, events, random_illust, payload_error, img_url, caption,
          post_time, outcome, samples, sends, send_result, first_wait_done>>

sessionVars == <<all_illusts, pages_collected, next_url, events, random_illust,
                 payload_error, img_url, caption>>

timerVars == <<next_interval, total_seconds, slept>>

\* What the environment gives: the steps of the bot leave it alone.
inputVars == <<config, collection, endless, clock, sigint>>

(***************************************************************************)
(* Configuration (load_config's result as run_bot reads it).               *)
(***************************************************************************)
Hours == 0..23

\* config.get('quiet_hours', {}): absent, or a window with its enabled flag.
NoWindow == [present |-> FALSE, enabled |-> FALSE, start_hour |-> 0, end_hour |-> 0]

Window(en, s, e) == [present |-> TRUE, enabled |-> en, start_hour |-> s, end_hour |-> e]

\* The hours the clock is read at.
ClockHours == {2, 5, 23}

\* The windows and the schedules <<interval_hours, interval_minutes,
\* interval_deviation_minutes>> the sampler's specification runs with ...
SamplerWindows == {NoWindow, Window(TRUE, 23, 5)}

SamplerSchedules == {<<0, 0, 1>>}

\* ... and those of the scheduler's specification, with the collections it
\* samples from.
QuietWindows == {NoWindow, Window(TRUE, 23, 5), Window(TRUE, 1, 5),
                 Window(TRUE, 5, 5), Window(FALSE, 23, 5)}

Schedules == {<<0, 0, 0>>, <<0, 1, 0>>, <<0, 0, 1>>, <<0, 1, 1>>}

SchedulerCollections == {<<>>, <<1>>, <<2, 1>>}

\* The schedules of the interval computation's specification: a base of one
\* minute or more, with and without deviation.
JitterSchedules ==
    {<<0, m, d>> : m \in 1..MaxBaseMinutes, d \in 0..MaxDeviationMinutes}

\* Every window of the 24-hour clock, enabled or not, and no window at all.
AllWindows ==
    {NoWindow} \cup {Window(en, s, e) : en \in BOOLEAN, s \in Hours, e \in Hours}

\* What config.json or the environment holds for a required setting.
SettingKinds == {"ok", "missing", "empty"}

\* The settings load_config reads: `source` is where they come from,
\* `interval_fields` is "bad" when an interval field is missing from the file
\* or is not an integer.
Settings(windows, schedules, sources, kinds, interval_kinds) ==
    {[source                     |-> src,
      pixiv_refresh_token        |-> pt,
      telegram_bot_token         |-> bt,
      telegram_channel_id        |-> ch,
      interval_fields            |-> iv,
      interval_hours             |-> s[1],
      interval_minutes           |-> s[2],
      interval_deviation_minutes |-> s[3],
      post_immediately_on_start  |-> p,
      quiet_hours                |-> w] :
        src \in sources, pt \in kinds, bt \in kinds, ch \in kinds,
        iv \in interval_kinds, s \in schedules, p \in BOOLEAN, w \in windows}

\* Complete settings, in config.json.
Configs(windows, schedules) ==
    Settings(windows, schedules, {"file"}, {"ok"}, {"ok"})

\* run_bot, line 371
base_interval_seconds == config.interval_hours * 3600 + config.interval_minutes * 60

\* run_bot, line 372
deviation_minutes == config.interval_deviation_minutes

\* A deviation drawn from 0 upwards only.
DeviationRangeOneSided(dev_minutes) == 0..(dev_minutes * 60)

\* random.randint(-deviation_minutes * 60, deviation_minutes * 60), line 88
DeviationRange(dev_minutes) == (-(dev_minutes * 60))..(dev_minutes * 60)

\* calculate_next_interval, lines 84-103, for the deviation the RNG drew (the
\* RNG is not used when deviation_minutes is 0)
calculate_next_interval(base_seconds, dev_minutes, deviation_seconds) ==
    IF dev_minutes = 0
    THEN base_seconds
    ELSE Max(MIN_INTERVAL_SECONDS, base_seconds + deviation_seconds)

\* Every interval calculate_next_interval can return.
NextIntervals(base_seconds, dev_minutes) ==
    {calculate_next_interval(base_seconds, dev_minutes, d) :
        d \in DeviationRange(dev_minutes)}

\* A window whose end hour is quiet too.
is_quiet_hours_end_inclusive(cfg, hour) ==
    LET quiet == cfg.quiet_hours
        start == quiet.start_hour
        end   == quiet.end_hour
    IN  IF ~quiet.enabled
        THEN FALSE
        ELSE IF start > end
             THEN hour >= start \/ hour <= end
             ELSE start <= hour /\ hour <= end

\* is_quiet_hours, lines 249-266, for the hour datetime.now(MOSCOW_TZ) gave
is_quiet_hours(cfg, hour) ==
    LET quiet == cfg.quiet_hours
        start == quiet.start_hour
        end   == quiet.end_hour
    IN  IF ~quiet.enabled
        THEN FALSE
        ELSE IF start > end
             THEN hour >= start \/ hour < end
             ELSE start <= hour /\ hour < end

(***************************************************************************)
(* The page fetcher, api.user_bookmarks_illust: what the upstream answers  *)
(* to the request for page k.  A fetch may also raise, return nothing, or  *)
(* return a result without illustrations (FetchKinds).                     *)
(***************************************************************************)
FetchKinds == {"ok", "raise", "none", "empty"}

NextCursor(k) ==
    IF k < Len(collection) THEN k + 1
    ELSE IF endless /\ Len(collection) > 0 THEN 1
    ELSE NoCursor

PageResponse(k) ==
    [illusts  |-> IF k \in 1..Len(collection) THEN PageItems(collection, k) ELSE <<>>,
     next_url |-> NextCursor(k)]

\* json_result as lines 172 and 196-201 see it: "none" is a falsy result,
\* "empty" a result whose 'illusts' is empty.
FetchResult(kind, k) ==
    CASE kind = "ok"    -> PageResponse(k)
      [] kind = "empty" -> [illusts |-> <<>>, next_url |-> NextCursor(k)]
      [] OTHER          -> [illusts |-> <<>>, next_url |-> NoCursor]

\* The session's observable steps: a request for page k that was answered
\* `kind` with n illustrations, and a sleep of PIXIV_REQUEST_DELAY seconds.
Fetched(kind, k, n) ==
    [type |-> "fetch", kind |-> kind, page |-> k, items |-> n, seconds |-> 0]

Delayed ==
    [type |-> "delay", kind |-> "sleep", page |-> 0, items |-> 0,
     seconds |-> PIXIV_REQUEST_DELAY]

(***************************************************************************)
(* Initial states: run_bot is about to load its configuration.             *)
(***************************************************************************)
\* No interrupt signal has arrived.
NoSigint == [got |-> FALSE, at |-> "none"]

InitWith(configs, collections, hours) ==
    /\ config \in configs
    /\ collection \in collections
    /\ endless \in {e \in BOOLEAN : e => Len(collection) > 0}
    /\ clock = hours
    /\ sigint = NoSigint
    /\ pc = "load"
    /\ next_interval = 0
    /\ total_seconds = 0
    /\ slept = 0
    /\ current_hour = -1
    /\ all_illusts = <<>>
    /\ pages_collected = 0
    /\ next_url = NoCursor
    /\ events = <<>>
    /\ random_illust = 0
    /\ payload_error = FALSE
    /\ img_url = None
    /\ caption = None
    /\ post_time = None
    /\ outcome = "none"
    /\ samples = 0
    /\ sends = 0
    /\ send_result = "none"
    /\ first_wait_done = FALSE

Init == InitWith(Configs(SamplerWindows, SamplerSchedules), Collections, ClockHours)

InitScheduler ==
    InitWith(Configs(QuietWindows, Schedules), SchedulerCollections, ClockHours)

\* The configurations that do not post at startup.
WithoutStartupPost(configs) == {c \in configs : ~c.post_immediately_on_start}

InitJitter ==
    InitWith(WithoutStartupPost(Configs({NoWindow}, JitterSchedules)), {<<1>>},
             ClockHours)

\* Collections of every number of pages, one illustration on each.
SessionCollections == {c \in Collections : \A k \in 1..Len(c) : c[k] = 1}

InitSession ==
    InitWith(Configs({NoWindow}, SamplerSchedules), SessionCollections, ClockHours)

\* Every way the file or the environment can set the required settings.
InitConfig ==
    InitWith(Settings({NoWindow}, SamplerSchedules, {"file", "env"}, SettingKinds,
                      {"ok", "bad"}),
             {<<1>>}, ClockHours)

InitQuiet ==
    InitWith(WithoutStartupPost(Configs(AllWindows, SamplerSchedules)), {<<1>>},
             Hours)

(***************************************************************************)
(* run_bot                                                                 *)
(***************************************************************************)
\* The hour is_quiet_hours reads: it returns at line 254, before reading the
\* clock, when the window is not enabled.
HourReadings == IF config.quiet_hours.enabled THEN clock ELSE {-1}

\* The check of line 67, which only the environment's settings go through.
EnvironmentIncomplete(cfg) ==
    \/ cfg.pixiv_refresh_token # "ok"
    \/ cfg.telegram_bot_token # "ok"
    \/ cfg.telegram_channel_id # "ok"

\* load_config and run_bot's lines 349-372.  The environment's settings are
\* checked at line 67 and int() of lines 55-57 raises on a non-integer; the
\* file's settings are returned as they are (line 45), and run_bot raises
\* KeyError at lines 353 or 361 when an interval field or the channel id is
\* missing.  Whatever is raised here ends the process (main, lines 398-400).
LoadConfig ==
    /\ pc = "load"
    /\ IF \/ config.source = "env" /\ EnvironmentIncomplete(config)
          \/ config.interval_fields = "bad"
          \/ config.telegram_channel_id = "missing"
       THEN /\ pc' = "crashed"
            /\ UNCHANGED config
       ELSE /\ pc' = "start"
            /\ config' = [config EXCEPT !.source = "dict"]
    /\ UNCHANGED <<collection, endless, clock, sigint, timerVars, current_hour,
                   sessionVars, post_time, outcome, samples, sends, send_result,
                   first_wait_done>>

\* A startup that posts whenever the flag is set, quiet hours or not.
StartupIgnoresQuietHours ==
    /\ pc = "start"
    /\ IF config.post_immediately_on_start
       THEN \E h \in HourReadings :
               /\ current_hour' = h
               /\ pc' = "post"
       ELSE /\ current_hour' = current_hour
            /\ pc' = "calc"
    /\ UNCHANGED <<inputVars, timerVars, sessionVars, post_time, outcome,
                   samples, sends, send_result, first_wait_done>>

\* Lines 375-376: post at once when the flag is set and the hour is not quiet.
Startup ==
    /\ pc = "start"
    /\ IF config.post_immediately_on_start
       THEN \E h \in HourReadings :
               /\ current_hour' = h
               /\ pc' = IF is_quiet_hours(config, h) THEN "calc" ELSE "post"
       ELSE /\ current_hour' = current_hour
            /\ pc' = "calc"
    /\ UNCHANGED <<inputVars, timerVars, sessionVars, post_time, outcome,
                   samples, sends, send_result, first_wait_done>>

\* Lines 379-383: the top of the loop computes the interval and starts the
\* countdown; the locals of the previous cycle are gone.
CalculateNextInterval ==
    /\ pc = "calc"
    /\ next_interval' \in NextIntervals(base_interval_seconds, deviation_minutes)
    /\ total_seconds' = next_interval'
    /\ slept' = 0
    /\ pc' = "wait"
    /\ current_hour' = -1
    /\ all_illusts' = <<>>
    /\ pages_collected' = 0
    /\ next_url' = NoCursor
    /\ events' = <<>>
    /\ random_illust' = 0
    /\ payload_error' = FALSE
    /\ img_url' = None
    /\ caption' = None
    /\ post_time' = None
    /\ outcome' = "none"
    /\ samples' = 0
    /\ sends' = 0
    /\ send_result' = "none"
    /\ UNCHANGED <<inputVars, first_wait_done>>

\* A countdown that takes two seconds off for every second slept.
CountdownTickTwoSeconds ==
    /\ pc = "wait"
    /\ total_seconds > 0
    /\ total_seconds' = total_seconds - 2
    /\ slept' = slept + 1
    /\ UNCHANGED <<inputVars, pc, next_interval, current_hour, sessionVars,
                   post_time, outcome, samples, sends, send_result, first_wait_done>>

\* countdown_timer, lines 327-329: one second of sleep.
CountdownTick ==
    /\ pc = "wait"
    /\ total_seconds > 0
    /\ ~sigint.got
    /\ total_seconds' = total_seconds - 1
    /\ slept' = slept + 1
    /\ UNCHANGED <<inputVars, pc, next_interval, current_hour, sessionVars,
                   post_time, outcome, samples, sends, send_result, first_wait_done>>

\* The skip is logged, and post_random_art is called all the same.
QuietHoursGateNoElse ==
    /\ pc = "wait"
    /\ ~(total_seconds > 0)
    /\ first_wait_done' = TRUE
    /\ \E h \in HourReadings :
          /\ current_hour' = h
          /\ outcome' = IF is_quiet_hours(config, h) THEN "SkippedQuietHours" ELSE outcome
          /\ pc' = "post"
    /\ UNCHANGED <<inputVars, timerVars, sessionVars, post_time, samples, sends,
                   send_result>>

\* Lines 327 and 386-390: the countdown is over; the quiet-hours check either
\* skips the cycle or calls post_random_art.
QuietHoursGate ==
    /\ pc = "wait"
    /\ ~(total_seconds > 0)
    /\ first_wait_done' = TRUE
    /\ \E h \in HourReadings :
          /\ current_hour' = h
          /\ IF is_quiet_hours(config, h)
             THEN /\ outcome' = "SkippedQuietHours"
                  /\ pc' = "calc"
             ELSE /\ outcome' = outcome
                  /\ pc' = "post"
    /\ UNCHANGED <<inputVars, timerVars, sessionVars, post_time, samples, sends,
                   send_result>>

(***************************************************************************)
(* get_random_pixiv_art_safe                                               *)
(***************************************************************************)
\* api.parse_qs(next_url), line 193: the request arguments of the cursor.
parse_qs(url) == url

\* A loop that goes on as long as the upstream hands out a cursor.
LoopConditionUncapped == next_url # NoCursor

\* The loop test off by one.
LoopConditionOffByOne ==
    next_url # NoCursor /\ pages_collected <= MAX_PAGES_TO_FETCH

\* The while test of line 188.
LoopCondition == next_url # NoCursor /\ pages_collected < MAX_PAGES_TO_FETCH

\* extend() putting the new page in front.
ExtendInFront(all, illusts) == illusts \o all

\* all_illusts.extend(...), lines 183 and 203.
Extend(all, illusts) == all \o illusts

\* A draw that never reaches the last position.
ChoiceIndicesShort(seq) == 1..(Len(seq) - 1)

\* random.choice(all_illusts), line 217: the positions it can draw.
ChoiceIndices(seq) == 1..Len(seq)

\* Lines 174 and 214: return None, None.
ReturnNone ==
    /\ img_url' = None
    /\ caption' = None
    /\ pc' = "sampled"

\* A handler that swallows the exception and goes on with what was
\* accumulated.
ExceptHandlerGoesOn ==
    /\ pc' = "choose"
    /\ UNCHANGED <<img_url, caption>>

\* Lines 243-247: whatever the try block raised is logged, and the sampler
\* returns None, None.
ExceptHandler == ReturnNone

\* The test of line 172 without its check of 'illusts'.
FirstPageUnusableOnlyFalsy(kind, json_result) == kind = "none"

\* The test of line 172: a falsy result, or one without illustrations.
FirstPageUnusable(kind, json_result) ==
    kind = "none" \/ json_result.illusts = <<>>

\* Lines 274 and 162-166: post_random_art calls the sampler, which logs in;
\* api.auth can raise (and does without a token), and the handler of line 243
\* returns None, None.  A file without 'pixiv_refresh_token' raises KeyError
\* at line 274, outside the sampler, which ends the process.
Authenticate ==
    /\ pc = "post"
    /\ IF config.pixiv_refresh_token = "missing"
       THEN /\ pc' = "crashed"
            /\ UNCHANGED <<samples, img_url, caption>>
       ELSE /\ samples' = samples + 1
            /\ \E authorised \in {a \in BOOLEAN : a => config.pixiv_refresh_token = "ok"} :
                  IF authorised
                  THEN /\ pc' = "fetch_first"
                       /\ UNCHANGED <<img_url, caption>>
                  ELSE ExceptHandler
    /\ UNCHANGED <<inputVars, timerVars, current_hour, all_illusts,
                   pages_collected, next_url, events, random_illust, payload_error, post_time,
                   outcome, sends, send_result, first_wait_done>>

\* Lines 170-186: the first page.
FetchFirstPage ==
    /\ pc = "fetch_first"
    /\ \E kind \in FetchKinds :
          LET json_result == FetchResult(kind, 1)
          IN  /\ events' = Append(events, Fetched(kind, 1, Len(json_result.illusts)))
              /\ IF kind = "raise"
                 THEN /\ ExceptHandler
                      /\ UNCHANGED <<all_illusts, pages_collected, next_url>>
                 ELSE IF FirstPageUnusable(kind, json_result)
                 THEN /\ ReturnNone
                      /\ UNCHANGED <<all_illusts, pages_collected, next_url>>
                 ELSE /\ all_illusts' = Extend(<<>>, json_result.illusts)
                      /\ pages_collected' = 1
                      /\ next_url' = json_result.next_url
                      /\ pc' = "loop"
                      /\ UNCHANGED <<img_url, caption>>
    /\ UNCHANGED <<inputVars, timerVars, current_hour, random_illust, payload_error, post_time,
                   outcome, samples, sends, send_result, first_wait_done>>

\* The loop body without its sleep.
InterPageDelaySkipped ==
    /\ pc = "loop"
    /\ LoopCondition
    /\ pc' = "fetch_next"
    /\ UNCHANGED <<inputVars, timerVars, current_hour, sessionVars, post_time,
                   outcome, samples, sends, send_result, first_wait_done>>

\* Lines 188-191: the loop goes on, and sleeps PIXIV_REQUEST_DELAY first.
InterPageDelay ==
    /\ pc = "loop"
    /\ LoopCondition
    /\ ~sigint.got
    /\ events' = Append(events, Delayed)
    /\ pc' = "fetch_next"
    /\ UNCHANGED <<inputVars, timerVars, current_hour, all_illusts,
                   pages_collected, next_url, random_illust, payload_error, img_url, caption,
                   post_time, outcome, samples, sends, send_result, first_wait_done>>

\* A next-page request whose empty answer makes the session return None, None.
FetchNextPageEmptyIsNotFound ==
    /\ pc = "fetch_next"
    /\ \E kind \in FetchKinds :
          LET k           == parse_qs(next_url)
              json_result == FetchResult(kind, k)
          IN  /\ events' = Append(events, Fetched(kind, k, Len(json_result.illusts)))
              /\ IF kind = "raise" \/ kind = "none" \/ json_result.illusts = <<>>
                 THEN /\ ExceptHandler
                      /\ UNCHANGED <<all_illusts, pages_collected, next_url>>
                 ELSE /\ all_illusts' = Extend(all_illusts, json_result.illusts)
                      /\ pages_collected' = pages_collected + 1
                      /\ next_url' = json_result.next_url
                      /\ pc' = "loop"
                      /\ UNCHANGED <<img_url, caption>>
    /\ UNCHANGED <<inputVars, timerVars, current_hour, random_illust, payload_error, post_time,
                   outcome, samples, sends, send_result, first_wait_done>>

\* Lines 193-208: the next page; a falsy result or an empty page breaks out of
\* the loop, an exception leaves through the handler of line 243.
FetchNextPage ==
    /\ pc = "fetch_next"
    /\ \E kind \in FetchKinds :
          LET k           == parse_qs(next_url)
              json_result == FetchResult(kind, k)
          IN  /\ events' = Append(events, Fetched(kind, k, Len(json_result.illusts)))
              /\ IF kind = "raise"
                 THEN /\ ExceptHandler
                      /\ UNCHANGED <<all_illusts, pages_collected, next_url>>
                 ELSE IF kind = "none" \/ json_result.illusts = <<>>
                 THEN /\ pc' = "choose"
                      /\ UNCHANGED <<all_illusts, pages_collected, next_url,
                                     img_url, caption>>
                 ELSE /\ all_illusts' = Extend(all_illusts, json_result.illusts)
                      /\ pages_collected' = pages_collected + 1
                      /\ next_url' = json_result.next_url
                      /\ pc' = "loop"
                      /\ UNCHANGED <<img_url, caption>>
    /\ UNCHANGED <<inputVars, timerVars, current_hour, random_illust, payload_error, post_time,
                   outcome, samples, sends, send_result, first_wait_done>>

\* Line 188, the test failing: accumulation is over.
LoopExit ==
    /\ pc = "loop"
    /\ ~LoopCondition
    /\ pc' = "choose"
    /\ UNCHANGED <<inputVars, timerVars, current_hour, sessionVars, post_time,
                   outcome, samples, sends, send_result, first_wait_done>>

\* Lines 212-217: nothing accumulated returns None, None; otherwise
\* random.choice draws one position of all_illusts.
ChooseAt(i) ==
    /\ pc = "choose"
    /\ all_illusts # <<>>
    /\ i \in ChoiceIndices(all_illusts)
    /\ random_illust' = all_illusts[i]
    /\ pc' = "build"
    /\ UNCHANGED <<inputVars, timerVars, current_hour, all_illusts,
                   pages_collected, next_url, events, payload_error, img_url, caption,
                   post_time, outcome, samples, sends, send_result, first_wait_done>>

ChooseRandomIllust ==
    /\ pc = "choose"
    /\ IF all_illusts = <<>>
       THEN /\ ReturnNone
            /\ UNCHANGED <<inputVars, timerVars, current_hour, all_illusts,
                           pages_collected, next_url, events, random_illust, payload_error,
                           post_time, outcome, samples, sends, send_result,
                           first_wait_done>>
       ELSE \E i \in 1..Len(all_illusts) : ChooseAt(i)

\* Lines 219-241: the image URL and the caption are built from the chosen
\* illustration's fields.  A field the upstream left out raises (KeyError,
\* TypeError), which the handler of line 243 turns into None, None; an empty
\* 'medium' URL is returned as an empty img_url.
PayloadKinds == {"url", "", "raise"}

BuildPayload ==
    /\ pc = "build"
    /\ \E kind \in PayloadKinds :
          /\ payload_error' = (kind = "raise")
          /\ IF kind = "raise"
             THEN ExceptHandler
             ELSE /\ img_url' = kind
                  /\ caption' = "caption"
                  /\ pc' = "sampled"
    /\ UNCHANGED <<inputVars, timerVars, current_hour, all_illusts,
                   pages_collected, next_url, events, random_illust, post_time,
                   outcome, samples, sends, send_result, first_wait_done>>

(***************************************************************************)
(* post_random_art and send_to_telegram                                    *)
(***************************************************************************)
\* The test of line 276 accepting whatever the sampler returned.
TruthyAlways(url) == TRUE

\* `if img_url:` of line 276: None and the empty string are falsy.
Truthy(url) == url # None /\ url # ""

\* Lines 276-293: send what the sampler returned, or log that there is no
\* image and return None.
PostDecision ==
    /\ pc = "sampled"
    /\ IF Truthy(img_url)
       THEN /\ pc' = "send"
            /\ UNCHANGED outcome
       ELSE /\ outcome' = "NoCandidateFound"
            /\ pc' = "calc"
    /\ UNCHANGED <<inputVars, timerVars, current_hour, sessionVars, post_time,
                   samples, sends, send_result, first_wait_done>>

\* Lines 132-155 and 287-293: bot.send_photo delivers and the message's date
\* is returned, or it raises and the handler of line 153 returns None.
SendKinds == {"delivered", "raise"}

\* send_to_telegram that tries again at once when send_photo raised.
SendToTelegramRetries ==
    /\ pc = "send"
    /\ sends' = sends + 1
    /\ \E kind \in SendKinds :
          /\ send_result' = kind
          /\ IF kind = "delivered"
             THEN /\ post_time' = "date"
                  /\ outcome' = "Posted"
                  /\ pc' = "calc"
             ELSE /\ post_time' = None
                  /\ outcome' = "DeliveryFailed"
                  /\ pc' = "send"
    /\ UNCHANGED <<inputVars, timerVars, current_hour, sessionVars, samples,
                   first_wait_done>>

\* send_to_telegram without its handler: the exception leaves run_bot.
SendToTelegramUnhandled ==
    /\ pc = "send"
    /\ sends' = sends + 1
    /\ \E kind \in SendKinds :
          /\ send_result' = kind
          /\ IF kind = "delivered"
             THEN /\ post_time' = "date"
                  /\ outcome' = "Posted"
                  /\ pc' = "calc"
             ELSE /\ UNCHANGED <<post_time, outcome>>
                  /\ pc' = "crashed"
    /\ UNCHANGED <<inputVars, timerVars, current_hour, sessionVars, samples,
                   first_wait_done>>

\* A file without 'telegram_bot_token' raises KeyError at line 283 and an
\* empty token raises in Bot(token=...) of line 134, before the try: both end
\* the process.  Without a usable channel id send_photo can only raise.
SendToTelegram ==
    /\ pc = "send"
    /\ IF config.telegram_bot_token = "missing"
       THEN /\ pc' = "crashed"
            /\ UNCHANGED <<sends, send_result, post_time, outcome>>
       ELSE IF config.telegram_bot_token = "empty"
       THEN /\ pc' = "crashed"
            /\ sends' = sends + 1
            /\ UNCHANGED <<send_result, post_time, outcome>>
       ELSE /\ ~sigint.got
            /\ sends' = sends + 1
            /\ pc' = "calc"
            /\ \E kind \in {k \in SendKinds :
                                k = "delivered" => config.telegram_channel_id = "ok"} :
                  /\ send_result' = kind
                  /\ IF kind = "delivered"
                     THEN /\ post_time' = "date"
                          /\ outcome' = "Posted"
                     ELSE /\ post_time' = None
                          /\ outcome' = "DeliveryFailed"
    /\ UNCHANGED <<inputVars, timerVars, current_hour, sessionVars, samples,
                   first_wait_done>>

(***************************************************************************)
(* The specification.                                                      *)
(***************************************************************************)
Next ==
    \/ LoadConfig
    \/ Startup
    \/ CalculateNextInterval
    \/ CountdownTick
    \/ QuietHoursGate
    \/ Authenticate
    \/ FetchFirstPage
    \/ InterPageDelay
    \/ FetchNextPage
    \/ LoopExit
    \/ ChooseRandomIllust
    \/ BuildPayload
    \/ PostDecision
    \/ SendToTelegram

Spec == Init /\ [][Next]_vars

(***************************************************************************)
(* SIGINT, lines 392-403.  asyncio.run(main()) runs the one task of the    *)
(* program.  A signal that arrives while the task is suspended in an await *)
(* (asyncio.sleep of lines 191 and 328, bot.send_photo of line 150) ends   *)
(* the task there.  A signal that arrives while the task runs synchronous  *)
(* code (api.auth and api.user_bookmarks_illust block the thread) either   *)
(* raises KeyboardInterrupt in place (interpreters whose asyncio.run keeps *)
(* the default handler) or cancels the task (interpreters whose            *)
(* asyncio.run installs its own handler): the cancellation is thrown into  *)
(* the task at its next await, and the synchronous code up to that await   *)
(* still runs.  Neither except Exception of the module catches either.     *)
(***************************************************************************)
SignalPoints == {"wait", "loop", "post", "fetch_first", "fetch_next", "send"}

\* The task is suspended in, or about to enter, an await that yields to the loop.
AtAwait ==
    \/ pc = "wait" /\ total_seconds > 0
    \/ pc = "loop" /\ LoopCondition
    \/ pc = "send" /\ config.telegram_bot_token = "ok"

Sigint ==
    /\ ~sigint.got
    /\ pc \in SignalPoints
    /\ sigint' = [got |-> TRUE, at |-> pc]
    /\ \E in_place \in {b \in BOOLEAN : AtAwait => b} :
          pc' = IF in_place THEN "stopped" ELSE pc
    /\ UNCHANGED <<config, collection, endless, clock, timerVars, current_hour,
                   sessionVars, post_time, outcome, samples, sends, send_result,
                   first_wait_done>>

\* The pending cancellation is thrown into the task at its await.
DeliverCancel ==
    /\ sigint.got
    /\ AtAwait
    /\ pc' = "stopped"
    /\ UNCHANGED <<inputVars, timerVars, current_hour, sessionVars, post_time,
                   outcome, samples, sends, send_result, first_wait_done>>

NextShutdown == Next \/ Sigint \/ DeliverCancel

InitShutdown ==
    InitWith(Configs({NoWindow}, SamplerSchedules), {<<1>>, <<1, 1>>}, ClockHours)

SpecScheduler == InitScheduler /\ [][Next]_vars

SpecShutdown == InitShutdown /\ [][NextShutdown]_vars

SpecConfig == InitConfig /\ [][Next]_vars

\* The task of asyncio.run is the only one of the loop and every call it
\* awaits or makes returns or raises: a step that can be taken is taken.
SpecSession == InitSession /\ [][Next]_vars /\ WF_vars(Next)

SpecJitter == InitJitter /\ [][Next]_vars

SpecQuiet == InitQuiet /\ [][Next]_vars

(***************************************************************************)
(* What the properties below speak about.                                  *)
(***************************************************************************)
FetchEvents == {i \in 1..Len(events) : events[i].type = "fetch"}

DelayEvents == {i \in 1..Len(events) : events[i].type = "delay"}

NumFetches == Cardinality(FetchEvents)

NumDelays == Cardinality(DelayEvents)

\* A fetch of the session raised.
FetchRaised == \E i \in FetchEvents : events[i].kind = "raise"

\* Every fetch of the session was answered with a page of the collection.
NoFetchFailure == \A i \in FetchEvents : events[i].kind = "ok"

\* The sampler has stopped accumulating: it is choosing, building the
\* payload, or has returned.
AccumulationOver == pc \in {"choose", "build", "sampled", "send"}

\* The page the j-th request of a session asks for when no fetch fails.
PageInOrder(j) == ((j - 1) % Len(collection)) + 1

RECURSIVE ConcatPages(_)
ConcatPages(n) ==
    IF n = 0 THEN <<>>
    ELSE ConcatPages(n - 1) \o PageItems(collection, PageInOrder(n))

(***************************************************************************)
(* C1: in every sampling session, whatever the upstream answers and even   *)
(* when its cursor chain never ends, at most MAX_PAGES_TO_FETCH pages are  *)
(* fetched: no fetch is issued once pages_collected has reached the cap.   *)
(***************************************************************************)
C1_PageCap ==
    /\ NumFetches <= MAX_PAGES_TO_FETCH
    /\ pages_collected <= MAX_PAGES_TO_FETCH
    /\ pc = "fetch_next" => pages_collected < MAX_PAGES_TO_FETCH

\* The cap stops a session whose cursor still leads on.
C1_Witness ==
    /\ pc = "choose"
    /\ endless
    /\ NumFetches = MAX_PAGES_TO_FETCH
    /\ pages_collected = MAX_PAGES_TO_FETCH
    /\ next_url # NoCursor

(***************************************************************************)
(* C2: within a session fetches and delays alternate, starting with a      *)
(* fetch: every fetch after the first directly follows one delay of        *)
(* PIXIV_REQUEST_DELAY, two fetches are never consecutive, and once the    *)
(* last fetch has answered there is one delay fewer than fetches.          *)
(***************************************************************************)
C2_DelayBetweenFetches ==
    /\ \A i \in 1..Len(events) :
          IF i % 2 = 1
          THEN events[i].type = "fetch"
          ELSE events[i].type = "delay" /\ events[i].seconds = PIXIV_REQUEST_DELAY
    /\ (events # <<>> /\ pc # "fetch_next") => NumDelays = NumFetches - 1
    /\ pc = "fetch_next" => NumDelays = NumFetches

\* A session of three fetches and the two delays between them.
C2_Witness ==
    /\ pc = "choose"
    /\ NumFetches = 3
    /\ NumDelays = 2

(***************************************************************************)
(* C3: when a fetch of the session raised, on the first page or a later    *)
(* one, the sampler returns None, None whatever it had accumulated, no     *)
(* send follows, the cycle is logged as having no candidate, and the       *)
(* scheduler goes on to compute its next interval.                         *)
(***************************************************************************)
C3_FetchErrorIsNotFound ==
    FetchRaised =>
        /\ pc \in {"sampled", "calc"}
        /\ img_url = None
        /\ caption = None
        /\ random_illust = 0
        /\ sends = 0
        /\ pc = "calc" => outcome = "NoCandidateFound" /\ ENABLED CalculateNextInterval

\* A later page raised after items were accumulated, and the loop goes on.
C3_Witness ==
    /\ FetchRaised
    /\ Len(all_illusts) > 0
    /\ pc = "calc"
    /\ samples = 1

(***************************************************************************)
(* C4: when the first fetch raises, returns nothing or returns no          *)
(* illustrations, the sampler returns None, None at once: that fetch is    *)
(* the session's only one and no delay is slept.                           *)
(***************************************************************************)
C4_FirstPageFailure ==
    (events # <<>> /\ events[1].items = 0) =>
        /\ Len(events) = 1
        /\ NumDelays = 0
        /\ all_illusts = <<>>
        /\ img_url = None
        /\ caption = None
        /\ pc \in {"sampled", "calc"}

\* The first fetch answered without illustrations although the collection
\* has further pages.
C4_Witness ==
    /\ pc = "sampled"
    /\ Len(events) = 1
    /\ events[1].kind = "empty"
    /\ NextCursor(1) # NoCursor
    /\ img_url = None

PagesExpected ==
    IF endless THEN MAX_PAGES_TO_FETCH ELSE Min(Len(collection), MAX_PAGES_TO_FETCH)

C6_PagesInOrder ==
    (AccumulationOver /\ events # <<>> /\ NoFetchFailure /\ Len(collection) >= 1) =>
        /\ NumFetches = PagesExpected
        /\ pages_collected = PagesExpected
        /\ \A j \in 1..PagesExpected : events[2 * j - 1].page = PageInOrder(j)
        /\ all_illusts = ConcatPages(PagesExpected)

\* A collection with one page more than the cap: the cap's pages, in order.
C6_Witness ==
    /\ pc = "choose"
    /\ NoFetchFailure
    /\ ~endless
    /\ Len(collection) = MAX_PAGES_TO_FETCH + 1
    /\ NumFetches = MAX_PAGES_TO_FETCH
    /\ Len(all_illusts) > MAX_PAGES_TO_FETCH

(***************************************************************************)
(* C7: in a cycle whose quiet-hours check after the countdown found the    *)
(* hour quiet, neither the sampler nor send_to_telegram is called: the     *)
(* skip is logged and the loop is back at its top, where the next interval *)
(* is computed and waited.                                                 *)
(***************************************************************************)
SamplerPoints == {"post", "fetch_first", "loop", "fetch_next", "choose", "build",
                  "sampled"}

\* The check after the countdown read an hour and found it quiet.
GateSaidQuiet ==
    first_wait_done /\ current_hour \in Hours /\ is_quiet_hours(config, current_hour)

C7_QuietCycleSkips ==
    GateSaidQuiet =>
        /\ pc = "calc"
        /\ samples = 0
        /\ sends = 0
        /\ outcome = "SkippedQuietHours"
        /\ ENABLED CalculateNextInterval

\* Quiet hours 23 to 5, read at 2 o'clock after the countdown.
C7_Witness ==
    /\ config.quiet_hours = Window(TRUE, 23, 5)
    /\ first_wait_done
    /\ current_hour = 2
    /\ pc = "calc"
    /\ outcome = "SkippedQuietHours"
    /\ samples = 0

(***************************************************************************)
(* C8: when bot.send_photo raises in a cycle whose sampling succeeded,     *)
(* send_to_telegram returns None, the cycle is logged as a failed          *)
(* delivery, and the loop is back at its top computing the next interval:  *)
(* the failure does not end the loop.                                      *)
(***************************************************************************)
C8_DeliveryFailureAbsorbed ==
    send_result = "raise" =>
        /\ pc = "calc"
        /\ post_time = None
        /\ outcome = "DeliveryFailed"
        /\ samples = 1
        /\ sends = 1
        /\ img_url = "url"
        /\ ENABLED CalculateNextInterval

\* After a failed delivery the loop has computed an interval and waits.
C8_Witness ==
    /\ send_result = "raise"
    /\ outcome = "DeliveryFailed"
    /\ first_wait_done
    /\ pc = "calc"

(***************************************************************************)
(* C9: send_to_telegram is called only after the sampler of the same cycle *)
(* returned an image; when the sampler returned None, None the cycle ends  *)
(* without a send, logged as having no candidate, back at the loop's top.  *)
(***************************************************************************)
C9_NoSendWithoutCandidate ==
    /\ (pc = "send" \/ sends > 0) =>
          /\ samples = 1
          /\ img_url = "url"
          /\ caption = "caption"
          /\ random_illust # 0
    /\ (samples > 0 /\ img_url = None /\ pc \notin SamplerPoints) =>
          /\ pc = "calc"
          /\ sends = 0
          /\ send_result = "none"
          /\ outcome = "NoCandidateFound"

\* A cycle whose sampler found nothing ended without a send.
C9_Witness ==
    /\ pc = "calc"
    /\ samples = 1
    /\ img_url = None
    /\ sends = 0
    /\ outcome = "NoCandidateFound"

(***************************************************************************)
(* C10: before the first countdown has run out, the sampler is called only *)
(* by the startup post, which happens exactly when post_immediately_on_    *)
(* start is set and the hour read at startup is not quiet, and then before *)
(* any countdown starts; during the first countdown nothing is sampled or  *)
(* sent.                                                                   *)
(***************************************************************************)
\* Before the first interval is computed current_hour is what line 375 read
\* (-1: is_quiet_hours was not called, or returned before reading the clock).
StartupPostDue ==
    config.post_immediately_on_start /\ ~is_quiet_hours(config, current_hour)

C10_StartupPost ==
    ~first_wait_done =>
        /\ (pc \in SamplerPoints \/ pc = "send") => StartupPostDue
        /\ pc = "calc" => /\ samples = 1 <=> StartupPostDue
                          /\ samples = 0 <=> ~StartupPostDue
        /\ pc \in {"start", "wait"} => samples = 0 /\ sends = 0

\* The flag is set, the window is enabled and the hour is not quiet: the
\* sampler has run before the first interval is computed.
C10_Witness ==
    /\ ~first_wait_done
    /\ pc = "calc"
    /\ config.post_immediately_on_start
    /\ config.quiet_hours.enabled
    /\ current_hour = 5
    /\ samples = 1

(***************************************************************************)
(* C11: every interval the scheduler waits is at least 60 seconds,         *)
(* whatever the base interval and the deviation, a deviation of 0 and a    *)
(* base below 60 seconds included.                                         *)
(***************************************************************************)
C11_IntervalFloor ==
    pc = "wait" => next_interval >= MIN_INTERVAL_SECONDS

(***************************************************************************)
(* C12: with a base B >= 60 and a deviation D >= 1, the intervals          *)
(* calculate_next_interval can return are exactly the integers of          *)
(* max(60, B - 60 D) .. B + 60 D, and the interval waited is one of them.  *)
(***************************************************************************)
IntervalRange(B, D) == Max(MIN_INTERVAL_SECONDS, B - D * 60)..(B + D * 60)

C12_IntervalRange ==
    (base_interval_seconds >= 60 /\ deviation_minutes >= 1) =>
        /\ NextIntervals(base_interval_seconds, deviation_minutes)
              = IntervalRange(base_interval_seconds, deviation_minutes)
        /\ pc = "wait" =>
              next_interval \in IntervalRange(base_interval_seconds, deviation_minutes)

\* The longest interval of a schedule whose shortest one is the floor.
C12_Witness ==
    /\ pc = "wait"
    /\ deviation_minutes >= 1
    /\ base_interval_seconds - deviation_minutes * 60 < MIN_INTERVAL_SECONDS
    /\ next_interval = base_interval_seconds + deviation_minutes * 60

(***************************************************************************)
(* C13: with a deviation of 0 and quiet hours disabled, the interval is    *)
(* the base interval exactly, every countdown sleeps exactly that many     *)
(* one-second sleeps, and every cycle then calls the sampler and, when it  *)
(* returned an image, send_to_telegram.                                    *)
(***************************************************************************)
C13_ExactInterval ==
    (deviation_minutes = 0 /\ ~config.quiet_hours.enabled) =>
        /\ NextIntervals(base_interval_seconds, 0) = {base_interval_seconds}
        /\ pc = "wait" =>
              /\ next_interval = base_interval_seconds
              /\ slept + total_seconds = base_interval_seconds
        /\ first_wait_done =>
              /\ outcome # "SkippedQuietHours"
              /\ pc # "wait" => slept = base_interval_seconds /\ total_seconds = 0
              /\ pc \in {"calc", "send"} => samples = 1
              /\ pc = "calc" => (sends = 1 <=> img_url = "url")

\* A cycle that slept the whole base interval and is about to send.
C13_Witness ==
    /\ deviation_minutes = 0
    /\ ~config.quiet_hours.enabled
    /\ first_wait_done
    /\ pc = "send"
    /\ slept = base_interval_seconds
    /\ base_interval_seconds >= 60

(***************************************************************************)
(* C14: is_quiet_hours is false without a window and for a disabled        *)
(* window; for an enabled window with start <= end it is true exactly for  *)
(* start <= hour < end (never when start = end), and with start > end      *)
(* exactly for hour >= start or hour < end; the check after the countdown  *)
(* skips the cycle exactly in those hours.                                 *)
(***************************************************************************)
QuietExpected(window, hour) ==
    /\ window.present
    /\ window.enabled
    /\ IF window.start_hour <= window.end_hour
       THEN window.start_hour <= hour /\ hour < window.end_hour
       ELSE hour >= window.start_hour \/ hour < window.end_hour

C14_QuietHours ==
    /\ \A h \in Hours : is_quiet_hours(config, h) <=> QuietExpected(config.quiet_hours, h)
    /\ (first_wait_done /\ current_hour \in Hours) =>
          (outcome = "SkippedQuietHours" <=> QuietExpected(config.quiet_hours, current_hour))
    /\ (first_wait_done /\ pc # "wait" /\ current_hour \notin Hours) =>
          /\ ~config.quiet_hours.enabled
          /\ outcome # "SkippedQuietHours"

\* A window from 5 to 5 read at 5 o'clock: not quiet, the cycle posts.
C14_Witness ==
    /\ config.quiet_hours = Window(TRUE, 5, 5)
    /\ first_wait_done
    /\ current_hour = 5
    /\ pc = "post"

(***************************************************************************)
(* C15: a shutdown signal that arrives during the wait, an inter-page      *)
(* delay or a fetch or publish network call stops the program at that      *)
(* point: the only step after the signal is the one to "stopped", and no   *)
(* fetch, delay or send is added after it.                                 *)
(***************************************************************************)
C15_SignalStopsAtOnce ==
    [][sigint.got => (pc' = "stopped" /\ events' = events /\ sends' = sends)]_vars

(***************************************************************************)
(* C16: an error that is none of the three expected kinds, such as one     *)
(* raised while the chosen illustration is turned into the image URL and   *)
(* the caption, ends the process: it is not turned into a skipped cycle.   *)
(***************************************************************************)
C16_UnclassifiedErrorIsFatal == payload_error => pc = "crashed"

(***************************************************************************)
(* C17: with a required setting (pixiv_refresh_token, telegram_bot_token,  *)
(* telegram_channel_id, the interval fields) missing or invalid, from the  *)
(* file or from the environment, no countdown second is slept, no sampling *)
(* session is started and no send is attempted.                            *)
(***************************************************************************)
ConfigInvalid(cfg) ==
    \/ cfg.pixiv_refresh_token # "ok"
    \/ cfg.telegram_bot_token # "ok"
    \/ cfg.telegram_channel_id # "ok"
    \/ cfg.interval_fields # "ok"

C17_InvalidConfigRejected ==
    ConfigInvalid(config) =>
        /\ slept = 0
        /\ samples = 0
        /\ sends = 0
        /\ events = <<>>

(***************************************************************************)
(* C18: nothing is tried twice in a cycle.  Between two computations of    *)
(* the interval (and in the startup post) get_random_pixiv_art_safe is     *)
(* called at most once and send_to_telegram at most once, after that one   *)
(* sampling session; whatever the send returned, the next one comes only   *)
(* after a new interval has been counted down in full.                     *)
(***************************************************************************)
C18_NoRetry ==
    /\ samples <= 1
    /\ sends <= samples
    /\ pc \in {"wait", "post"} => samples = 0 /\ sends = 0
    /\ pc = "send" => samples = 1 /\ sends = 0
    /\ (first_wait_done /\ (pc \in SamplerPoints \/ pc = "send" \/ sends = 1)) =>
          slept = next_interval /\ total_seconds = 0

\* A cycle whose only send failed and that is over.
C18_Witness ==
    /\ first_wait_done
    /\ pc = "calc"
    /\ sends = 1
    /\ send_result = "raise"
    /\ slept = next_interval
    /\ next_interval >= MIN_INTERVAL_SECONDS

(***************************************************************************)
(* C19: when a request for a later page is answered, without raising, by   *)
(* nothing or by an empty page, accumulation stops although the cursor of  *)
(* the page before is still set, pages_collected does not count the empty  *)
(* answer, and the session goes on to choose among the illustrations of    *)
(* the earlier pages: it returns None only when building the payload of    *)
(* the chosen one raised.                                                  *)
(***************************************************************************)
LaterPageEmpty ==
    /\ Len(events) >= 3
    /\ events[Len(events)].type = "fetch"
    /\ events[Len(events)].kind # "raise"
    /\ events[Len(events)].items = 0

Chosen == \E i \in 1..Len(all_illusts) : random_illust = all_illusts[i]

C20_SessionTerminates ==
    /\ [](NumFetches <= MAX_PAGES_TO_FETCH /\ NumDelays <= MAX_PAGES_TO_FETCH - 1)
    /\ (pc = "post") ~> (pc = "sampled")

\* A session that used the whole budget of requests and delays and returned.
C20_Witness ==
    /\ pc = "sampled"
    /\ endless
    /\ NumFetches = MAX_PAGES_TO_FETCH
    /\ NumDelays = MAX_PAGES_TO_FETCH - 1
    /\ img_url # None

====
